---- MODULE Spec2Model ----
(***************************************************************************)
(* keeb_os_probe: a hotplug reactor that tells configured keyboards the    *)
(* host OS code over a raw HID report.  State machine of src/main.rs:      *)
(* main's startup sequence, the event loop, and the device_arrived /       *)
(* device_left callbacks with BoardConnection::probe unfolded step by      *)
(* step.  Everything outside main.rs (filesystem, libusb, hidapi) is an    *)
(* environment whose answers are drawn nondeterministically.               *)
(***************************************************************************)
EXTENDS Integers, Sequences, FiniteSets

\* ---------------------------------------------------------------- bounds
\* Longest HID device list the HID subsystem reports.
MaxHid == 2

\* ------------------------------------------------------ program constants
HID_USAGE == 97
HID_USAGE_PAGE == 65376

\* The values cfg(target_os) can give HOST_OS_CODE: linux, windows, macos.
HostOsCodes == {1, 2, 3}

\* ------------------------------------------------------------ input sets
Names == {"ergo", "numpad"}
Vids == {4660, 4661}
Pids == {22136, 22137}
\* (vendor_id, product_id) pairs that configuration files use.
ConfigIds == {<<4660, 22136>>, <<4661, 22137>>}
Usages == {HID_USAGE, 6}
UsagePages == {HID_USAGE_PAGE, 1}

\* struct KeyboardConfig, with the HashMap key it is stored under.
KeyboardConfig ==
    {k \in [name : Names, vendor_id : Vids, product_id : Pids] :
        <<k.vendor_id, k.product_id>> \in ConfigIds}

\* struct Config: the keyboards map, as the sequence its iter() yields.  Keys
\* are unique; the iteration order of a HashMap is arbitrary but fixed.
Config ==
    {c \in UNION {[1..n -> KeyboardConfig] : n \in 0..Cardinality(Names)} :
        \A i, j \in 1..Len(c) : i # j => c[i].name # c[j].name}

\* (vendor_id, product_id) pairs of the HID interfaces the host may show: the
\* configured ones and one that shares a vendor id with the first and a
\* product id with the second.
HidIds == ConfigIds \cup {<<4660, 22137>>}

\* One entry of hid_api.device_list(); its path is its position in the list.
DeviceInfo ==
    {d \in [vendor_id : Vids, product_id : Pids, usage : Usages, usage_page : UsagePages] :
        <<d.vendor_id, d.product_id>> \in HidIds}

HidLists == UNION {[1..n -> DeviceInfo] : n \in 0..MaxHid}

NoEvent == [kind |-> "None", vendor_id |-> 0, product_id |-> 0, descriptor |-> FALSE]

\* ----------------------------------------------------------------- state
VARIABLES
    HOST_OS_CODE,   \* the build's host OS code
    pc,             \* where the main thread is
    exit_code,      \* <<>> while running, <<code>> once the process ended
    error,          \* the error main returned or the panic message, "" if none
    native_calls,   \* native USB / HID entry points called during startup
    config,         \* BoardConnection.config.keyboards (<<>> before it is parsed)
    hid_api,        \* BoardConnection.hid_api is initialised
    registered,     \* the hotplug callback is registered with libusb
    caller,         \* what invoked the running callback: "enumerate" | "handle_events"
    ev,             \* the hotplug event of the current (or last) callback
    keeb,           \* probe: index in config of the matched keyboard, 0 if none
    device_list,    \* probe: what hid_api.device_list() returned
    device,         \* probe: index in device_list of the interface found, 0 if none
    session,        \* probe: path of the open HidDevice, 0 if none is open
    steps,          \* calls made by the current (or last) callback, in order
    sent,           \* writes issued by the current (or last) callback, in order
    notice,         \* keyboard named by the "not connected" line on stderr, "" if none
    result,         \* what probe returned: "none" | "Ok" | "Err_open" | "Err_write"
    earlier         \* the report last written by an earlier callback, <<>> if none

vars ==
    <<HOST_OS_CODE, pc, exit_code, error, native_calls, config, hid_api, registered,
      caller, ev, keeb, device_list, device, session, steps, sent, notice, result,
      earlier>>

startup == <<config, hid_api, registered>>
reaction == <<caller, ev, keeb, device_list, device, session, steps, sent, notice, result>>

\* --------------------------------------------------------- pure functions
\* Mutant of KeebMatches: the product id is not compared.
KeebMatchesVendorOnly(keeb_config, vendor_id, product_id) ==
    keeb_config.vendor_id = vendor_id

\* The closure of the find over config.keyboards.
KeebMatches(keeb_config, vendor_id, product_id) ==
    keeb_config.vendor_id = vendor_id /\ keeb_config.product_id = product_id

RECURSIVE MatchKeyboardFrom(_, _, _, _)
\* Iterator::find over config.keyboards from position i on: the first position
\* whose entry satisfies the closure, 0 when there is none.
MatchKeyboardFrom(cfg, vendor_id, product_id, i) ==
    IF i > Len(cfg) THEN 0
    ELSE IF KeebMatches(cfg[i], vendor_id, product_id) THEN i
    ELSE MatchKeyboardFrom(cfg, vendor_id, product_id, i + 1)

\* Mutant of MatchKeyboard: the last configured keyboard with the ids is taken.
MatchKeyboardLast(cfg, vendor_id, product_id) ==
    LET hits == {i \in 1..Len(cfg) :
                    cfg[i].vendor_id = vendor_id /\ cfg[i].product_id = product_id}
    IN  IF hits = {} THEN 0 ELSE CHOOSE i \in hits : \A j \in hits : j <= i

\* The first configured keyboard with the event's ids (0: none).
MatchKeyboard(cfg, vendor_id, product_id) ==
    MatchKeyboardFrom(cfg, vendor_id, product_id, 1)

\* Mutant of InterfaceMatches: the usage page is not compared.
InterfaceMatchesNoUsagePage(d, keeb_config) ==
    /\ d.vendor_id = keeb_config.vendor_id
    /\ d.product_id = keeb_config.product_id
    /\ d.usage = HID_USAGE

\* The closure of the find over hid_api.device_list().
InterfaceMatches(d, keeb_config) ==
    /\ d.vendor_id = keeb_config.vendor_id
    /\ d.product_id = keeb_config.product_id
    /\ d.usage = HID_USAGE
    /\ d.usage_page = HID_USAGE_PAGE

RECURSIVE FindInterfaceFrom(_, _, _)
\* Iterator::find over the device list from position i on: the first position
\* whose entry satisfies the closure, 0 when there is none.
FindInterfaceFrom(list, keeb_config, i) ==
    IF i > Len(list) THEN 0
    ELSE IF InterfaceMatches(list[i], keeb_config) THEN i
    ELSE FindInterfaceFrom(list, keeb_config, i + 1)

\* Mutant of FindInterface: the vendor id alone selects the interface.
FindInterfaceByVendor(list, keeb_config) ==
    LET hits == {i \in 1..Len(list) : list[i].vendor_id = keeb_config.vendor_id}
    IN  IF hits = {} THEN 0 ELSE CHOOSE i \in hits : \A j \in hits : i <= j

\* Mutant of FindInterface: the last matching interface of the list is taken.
FindInterfaceLast(list, keeb_config) ==
    LET hits == {i \in 1..Len(list) :
                    /\ list[i].vendor_id = keeb_config.vendor_id
                    /\ list[i].product_id = keeb_config.product_id
                    /\ list[i].usage = HID_USAGE
                    /\ list[i].usage_page = HID_USAGE_PAGE}
    IN  IF hits = {} THEN 0 ELSE CHOOSE i \in hits : \A j \in hits : j <= i

\* The first interface of the list that matches the keyboard (0: none).
FindInterface(list, keeb_config) ==
    FindInterfaceFrom(list, keeb_config, 1)

\* Mutant of Report: the command alone, without the host OS code.
ReportCommandOnly(os) == <<0, 42>>

\* The report written to the device: report ID, command, host OS code.
Report(os) == <<0, 42, os>>

\* ------------------------------------------------------------------ Init
Init ==
    /\ HOST_OS_CODE \in HostOsCodes
    /\ pc = "has_hotplug"
    /\ exit_code = <<>>
    /\ error = ""
    /\ native_calls = {}
    /\ config = <<>>
    /\ hid_api = FALSE
    /\ registered = FALSE
    /\ caller = "none"
    /\ ev = NoEvent
    /\ keeb = 0
    /\ device_list = <<>>
    /\ device = 0
    /\ session = 0
    /\ steps = <<>>
    /\ sent = <<>>
    /\ notice = ""
    /\ result = "none"
    /\ earlier = <<>>

\* main returns Err(e): the process ends with exit code 1.
Fail(e) ==
    /\ pc' = "exited"
    /\ exit_code' = <<1>>
    /\ error' = e

\* --------------------------------------------------------------- startup
\* Mutant of HasHotplug: a USB context is created to ask for the capability.
HasHotplugWithContext ==
    /\ pc = "has_hotplug"
    /\ native_calls' = native_calls \cup {"usb_init", "usb_has_capability"}
    /\ \E ok \in BOOLEAN :
        IF ok THEN pc' = "config_local_dir" /\ UNCHANGED <<exit_code, error>>
        ELSE Fail("No hotplug compat")
    /\ UNCHANGED <<HOST_OS_CODE, earlier, config, hid_api, registered,
                   caller, ev, keeb, device_list, device, session, steps, sent,
                   notice, result>>

\* if !rusb::has_hotplug() { bail!("No hotplug compat") }
HasHotplug ==
    /\ pc = "has_hotplug"
    /\ native_calls' = native_calls \cup {"usb_has_capability"}
    /\ \E ok \in BOOLEAN :
        IF ok THEN pc' = "config_local_dir" /\ UNCHANGED <<exit_code, error>>
        ELSE Fail("No hotplug compat")
    /\ UNCHANGED <<HOST_OS_CODE, earlier, startup, reaction>>

\* dirs::config_local_dir().context("Could not find config path")?
ConfigLocalDir ==
    /\ pc = "config_local_dir"
    /\ \E ok \in BOOLEAN :
        IF ok THEN pc' = "read_to_string" /\ UNCHANGED <<exit_code, error>>
        ELSE Fail("Could not find config path")
    /\ UNCHANGED <<HOST_OS_CODE, earlier, native_calls, startup, reaction>>

\* fs::read_to_string(&config_path).context(..)?: the file may be absent or
\* unreadable.
ReadToString ==
    /\ pc = "read_to_string"
    /\ \E file \in {"present", "absent", "unreadable"} :
        IF file = "present" THEN pc' = "from_str" /\ UNCHANGED <<exit_code, error>>
        ELSE Fail("Config path: " \o file)
    /\ UNCHANGED <<HOST_OS_CODE, earlier, native_calls, startup, reaction>>

\* toml::from_str(&config_toml)?
FromStr ==
    /\ pc = "from_str"
    /\ \/ \E c \in Config :
            /\ config' = c
            /\ pc' = "new"
            /\ UNCHANGED <<exit_code, error>>
       \/ Fail("toml") /\ UNCHANGED config
    /\ UNCHANGED <<HOST_OS_CODE, earlier, native_calls, hid_api, registered, reaction>>

\* BoardConnection::new(config)?: hidapi::HidApi::new()?
New ==
    /\ pc = "new"
    /\ native_calls' = native_calls \cup {"hid_init"}
    /\ \E ok \in BOOLEAN :
        IF ok THEN hid_api' = TRUE /\ pc' = "context" /\ UNCHANGED <<exit_code, error>>
        ELSE Fail("hidapi") /\ UNCHANGED hid_api
    /\ UNCHANGED <<HOST_OS_CODE, earlier, config, registered, reaction>>

\* rusb::Context::new()?
ContextNew ==
    /\ pc = "context"
    /\ native_calls' = native_calls \cup {"usb_init"}
    /\ \E ok \in BOOLEAN :
        IF ok THEN pc' = "register" /\ UNCHANGED <<exit_code, error>>
        ELSE Fail("rusb context")
    /\ UNCHANGED <<HOST_OS_CODE, earlier, startup, reaction>>

\* HotplugBuilder::new().enumerate(true).register(..)?: on success the
\* callback is registered and the devices already connected are reported to
\* it as arrivals before the event loop is entered.
Register ==
    /\ pc = "register"
    /\ native_calls' = native_calls \cup {"usb_hotplug_register"}
    /\ \E ok \in BOOLEAN :
        IF ok THEN registered' = TRUE /\ pc' = "enumerate" /\ UNCHANGED <<exit_code, error>>
        ELSE Fail("hotplug register") /\ UNCHANGED registered
    /\ UNCHANGED <<HOST_OS_CODE, earlier, config, hid_api, reaction>>

\* Mutant of Registered: main returns Ok once the connected devices have been
\* reported.
RegisteredExitsZero ==
    /\ pc = "enumerate"
    /\ pc' = "exited"
    /\ exit_code' = <<0>>
    /\ UNCHANGED <<HOST_OS_CODE, earlier, error, native_calls, config, hid_api,
                   registered, caller, ev, keeb, device_list, device, session,
                   steps, sent, notice, result>>

\* Mutant of Registered: the registration can still fail once the connected
\* devices have been reported.
RegisteredOrFails ==
    /\ pc = "enumerate"
    /\ \/ pc' = "handle_events" /\ UNCHANGED <<exit_code, error>>
       \/ Fail("hotplug register")
    /\ UNCHANGED <<HOST_OS_CODE, earlier, native_calls, config, hid_api, registered,
                   caller, ev, keeb, device_list, device, session, steps, sent,
                   notice, result>>

\* The enumeration of connected devices is over: loop { handle_events }.
Registered ==
    /\ pc = "enumerate"
    /\ pc' = "handle_events"
    /\ UNCHANGED <<HOST_OS_CODE, earlier, exit_code, error, native_calls, startup, reaction>>

\* context.handle_events(None)? returns an error.
HandleEventsErr ==
    /\ pc = "handle_events"
    /\ Fail("handle_events")
    /\ UNCHANGED <<HOST_OS_CODE, earlier, native_calls, startup, reaction>>

\* ------------------------------------------------------------- callbacks
\* A callback starts: nothing is left of the previous one.
Fresh(e, from) ==
    /\ ev' = e
    /\ caller' = from
    /\ keeb' = 0
    /\ device_list' = <<>>
    /\ device' = 0
    /\ session' = 0
    /\ steps' = <<>>
    /\ sent' = <<>>
    /\ notice' = ""
    /\ result' = "none"
    /\ earlier' = IF sent = <<>> THEN earlier ELSE sent[Len(sent)].data

\* Mutant of DeviceArrived: an arrival is delivered while a callback runs.
DeviceArrivedAnytime ==
    /\ pc # "exited"
    /\ registered
    /\ \E v \in Vids, p \in Pids, desc \in BOOLEAN :
        /\ Fresh([kind |-> "Arrived", vendor_id |-> v, product_id |-> p,
                  descriptor |-> desc],
                 IF pc \in {"enumerate", "handle_events"} THEN pc ELSE caller)
        /\ pc' = IF desc THEN "probe" ELSE pc
    /\ UNCHANGED <<HOST_OS_CODE, exit_code, error, native_calls, config, hid_api,
                   registered>>

\* Mutant of DeviceArrived: a descriptor that cannot be read is unwrapped.
DeviceArrivedUnwraps ==
    /\ pc \in {"enumerate", "handle_events"}
    /\ registered
    /\ \E v \in Vids, p \in Pids, desc \in BOOLEAN :
        /\ Fresh([kind |-> "Arrived", vendor_id |-> v, product_id |-> p,
                  descriptor |-> desc], pc)
        /\ IF desc
           THEN pc' = "probe" /\ UNCHANGED <<exit_code, error>>
           ELSE pc' = "exited" /\ exit_code' = <<101>> /\ error' = "descriptor"
    /\ UNCHANGED <<HOST_OS_CODE, native_calls, config, hid_api, registered>>

\* device_arrived: probes the device when its descriptor can be read.
DeviceArrived ==
    /\ pc \in {"enumerate", "handle_events"}
    /\ registered
    /\ \E v \in Vids, p \in Pids, desc \in BOOLEAN :
        /\ Fresh([kind |-> "Arrived", vendor_id |-> v, product_id |-> p,
                  descriptor |-> desc], pc)
        /\ pc' = IF desc THEN "probe" ELSE pc
    /\ UNCHANGED <<HOST_OS_CODE, exit_code, error, native_calls, startup>>

\* Mutant of DeviceLeft: a removal is probed like an arrival.
DeviceLeftProbes ==
    /\ pc = "handle_events"
    /\ registered
    /\ \E v \in Vids, p \in Pids :
        /\ ev' = [kind |-> "Left", vendor_id |-> v, product_id |-> p,
                  descriptor |-> TRUE]
        /\ caller' = pc
        /\ keeb' = 0 /\ device_list' = <<>> /\ device' = 0 /\ session' = 0
        /\ steps' = <<>> /\ sent' = <<>> /\ notice' = "" /\ result' = "none"
        /\ earlier' = IF sent = <<>> THEN earlier ELSE sent[Len(sent)].data
    /\ pc' = "probe"
    /\ UNCHANGED <<HOST_OS_CODE, exit_code, error, native_calls, config, hid_api,
                   registered>>

\* device_left: empty body.
DeviceLeft ==
    /\ pc = "handle_events"
    /\ registered
    /\ \E v \in Vids, p \in Pids :
        Fresh([kind |-> "Left", vendor_id |-> v, product_id |-> p,
               descriptor |-> FALSE], pc)
    /\ UNCHANGED <<HOST_OS_CODE, pc, exit_code, error, native_calls, startup>>

\* Mutant of Probe: the settle delay is taken before the keyboard is matched.
ProbeSleepsFirst ==
    /\ pc = "probe"
    /\ keeb' = MatchKeyboard(config, ev.vendor_id, ev.product_id)
    /\ steps' = steps \o <<"sleep", "match">>
    /\ IF keeb' = 0
       THEN result' = "Ok" /\ pc' = "expect"
       ELSE result' = result /\ pc' = "device_list"
    /\ UNCHANGED <<HOST_OS_CODE, earlier, exit_code, error, native_calls, config,
                   hid_api, registered, caller, ev, device_list, device, session,
                   sent, notice>>

\* probe: config.keyboards.iter().find(..); no keyboard matched: Ok(()).
Probe ==
    /\ pc = "probe"
    /\ keeb' = MatchKeyboard(config, ev.vendor_id, ev.product_id)
    /\ steps' = Append(steps, "match")
    /\ IF keeb' = 0
       THEN result' = "Ok" /\ pc' = "expect"
       ELSE result' = result /\ pc' = "sleep"
    /\ UNCHANGED <<HOST_OS_CODE, earlier, exit_code, error, native_calls, startup,
                   caller, ev, device_list, device, session, sent, notice>>

\* probe: thread::sleep(Duration::from_millis(50))
Sleep ==
    /\ pc = "sleep"
    /\ steps' = Append(steps, "sleep")
    /\ pc' = "device_list"
    /\ UNCHANGED <<HOST_OS_CODE, earlier, exit_code, error, native_calls, startup,
                   caller, ev, keeb, device_list, device, session, sent, notice, result>>

\* Mutant of DeviceList: a missing interface is returned as an error.
DeviceListOrErr ==
    /\ pc = "device_list"
    /\ \E list \in HidLists :
        /\ device_list' = list
        /\ device' = FindInterface(list, config[keeb])
    /\ steps' = Append(steps, "device_list")
    /\ IF device' = 0
       THEN notice' = config[keeb].name /\ result' = "Err_open" /\ pc' = "expect"
       ELSE notice' = notice /\ result' = result /\ pc' = "open_path"
    /\ UNCHANGED <<HOST_OS_CODE, earlier, exit_code, error, native_calls, config, hid_api,
                   registered, caller, ev, keeb, session, sent>>

\* probe: hid_api.device_list().find(..) else { eprintln!(..); return Ok(()) }
DeviceList ==
    /\ pc = "device_list"
    /\ \E list \in HidLists :
        /\ device_list' = list
        /\ device' = FindInterface(list, config[keeb])
    /\ steps' = Append(steps, "device_list")
    /\ IF device' = 0
       THEN notice' = config[keeb].name /\ result' = "Ok" /\ pc' = "expect"
       ELSE notice' = notice /\ result' = result /\ pc' = "open_path"
    /\ UNCHANGED <<HOST_OS_CODE, earlier, exit_code, error, native_calls, startup,
                   caller, ev, keeb, session, sent>>

\* probe: hid_api.open_path(device.path())?
OpenPath ==
    /\ pc = "open_path"
    /\ steps' = Append(steps, "open_path")
    /\ \E ok \in BOOLEAN :
        IF ok THEN session' = device /\ result' = result /\ pc' = "write"
        ELSE session' = session /\ result' = "Err_open" /\ pc' = "expect"
    /\ UNCHANGED <<HOST_OS_CODE, earlier, exit_code, error, native_calls, startup,
                   caller, ev, keeb, device_list, device, sent, notice>>

\* Mutant of Write: the report is written twice.
WriteTwice ==
    /\ pc = "write"
    /\ steps' = steps \o <<"write", "write">>
    /\ sent' = sent \o <<[path |-> session, data |-> Report(HOST_OS_CODE)],
                          [path |-> session, data |-> Report(HOST_OS_CODE)]>>
    /\ \E ok \in BOOLEAN : result' = IF ok THEN "Ok" ELSE "Err_write"
    /\ session' = 0
    /\ pc' = "expect"
    /\ UNCHANGED <<HOST_OS_CODE, earlier, exit_code, error, native_calls, config, hid_api,
                   registered, caller, ev, keeb, device_list, device, notice>>

\* Mutant of Write: a keyboard that was written to is taken out of the
\* configuration.
WriteOnce ==
    /\ pc = "write"
    /\ steps' = Append(steps, "write")
    /\ sent' = Append(sent, [path |-> session, data |-> Report(HOST_OS_CODE)])
    /\ \E ok \in BOOLEAN : result' = IF ok THEN "Ok" ELSE "Err_write"
    /\ session' = 0
    /\ pc' = "expect"
    /\ config' = SubSeq(config, 1, keeb - 1) \o SubSeq(config, keeb + 1, Len(config))
    /\ keeb' = 0
    /\ UNCHANGED <<HOST_OS_CODE, earlier, exit_code, error, native_calls, hid_api,
                   registered, caller, ev, device_list, device, notice>>

\* Mutant of Write: the HidDevice outlives probe.
WriteLeaksSession ==
    /\ pc = "write"
    /\ steps' = Append(steps, "write")
    /\ sent' = Append(sent, [path |-> session, data |-> Report(HOST_OS_CODE)])
    /\ \E ok \in BOOLEAN : result' = IF ok THEN "Ok" ELSE "Err_write"
    /\ pc' = "expect"
    /\ UNCHANGED <<HOST_OS_CODE, earlier, exit_code, error, native_calls, config,
                   hid_api, registered, caller, ev, keeb, device_list, device,
                   session, notice>>

\* probe: device.write(&[0, 42, HOST_OS_CODE])?; the HidDevice is dropped
\* when probe returns, whether the write succeeded or not.
Write ==
    /\ pc = "write"
    /\ steps' = Append(steps, "write")
    /\ sent' = Append(sent, [path |-> session, data |-> Report(HOST_OS_CODE)])
    /\ \E ok \in BOOLEAN : result' = IF ok THEN "Ok" ELSE "Err_write"
    /\ session' = 0
    /\ pc' = "expect"
    /\ UNCHANGED <<HOST_OS_CODE, earlier, exit_code, error, native_calls, startup,
                   caller, ev, keeb, device_list, device, notice>>

\* Mutant of ExpectOk: main handles one event and returns.
ExpectOkExits ==
    /\ pc = "expect"
    /\ result = "Ok"
    /\ pc' = "exited"
    /\ exit_code' = <<0>>
    /\ UNCHANGED <<HOST_OS_CODE, earlier, error, native_calls, config, hid_api,
                   registered, caller, ev, keeb, device_list, device, session,
                   steps, sent, notice, result>>

\* device_arrived: probe returned Ok, the callback returns to its caller.
ExpectOk ==
    /\ pc = "expect"
    /\ result = "Ok"
    /\ pc' = caller
    /\ UNCHANGED <<HOST_OS_CODE, earlier, exit_code, error, native_calls, startup, reaction>>

\* device_arrived: .expect("Probed device") on Err panics inside the native
\* hotplug callback.  What the unwinding does is the build's: it ends the
\* process (exit code 101), or it is caught at the callback boundary, which
\* drops the callback and lets main go on pumping events.
ExpectPanic ==
    /\ pc = "expect"
    /\ result \in {"Err_open", "Err_write"}
    /\ error' = "Probed device"
    /\ \E caught \in BOOLEAN :
        IF caught
        THEN registered' = FALSE /\ pc' = caller /\ exit_code' = exit_code
        ELSE registered' = registered /\ pc' = "exited" /\ exit_code' = <<101>>
    /\ UNCHANGED <<HOST_OS_CODE, earlier, native_calls, config, hid_api, reaction>>

Next ==
    \/ HasHotplug
    \/ ConfigLocalDir
    \/ ReadToString
    \/ FromStr
    \/ New
    \/ ContextNew
    \/ Register
    \/ Registered
    \/ HandleEventsErr
    \/ DeviceArrived
    \/ DeviceLeft
    \/ Probe
    \/ Sleep
    \/ DeviceList
    \/ OpenPath
    \/ Write
    \/ ExpectOk
    \/ ExpectPanic

Spec == Init /\ [][Next]_vars

\* ---------------------------------------------------------------- claims
\* The callback has made the call named c.
Did(c) == \E i \in 1..Len(steps) : steps[i] = c

\* Some configured keyboard has the ids (v, p).
Configured(v, p) ==
    \E k \in 1..Len(config) : config[k].vendor_id = v /\ config[k].product_id = p

\* The protocol's interface of the device with ids (v, p).
TargetInterface(v, p) ==
    [vendor_id |-> v, product_id |-> p, usage |-> 97, usage_page |-> 65376]

\* The positions of list that hold the protocol's interface of (v, p).
Targets(list, v, p) == {i \in 1..Len(list) : list[i] = TargetInterface(v, p)}

\* probe was called for an arrival of a configured keyboard and has returned,
\* and the HID device list it queried shows the keyboard's interface.
ArrivalWithInterface ==
    /\ ev.kind = "Arrived"
    /\ result # "none"
    /\ Configured(ev.vendor_id, ev.product_id)
    /\ Targets(device_list, ev.vendor_id, ev.product_id) # {}

\* C1 as stated: for every arrival of a configured keyboard whose interface
\* is in the HID device list queried after the settle delay, the reaction
\* performs exactly one write, of [0x00, 0x2A, host_os_code].
C1_ExactlyOneWrite ==
    ArrivalWithInterface =>
        /\ Len(sent) = 1
        /\ sent[1].data = <<0, 42, HOST_OS_CODE>>

\* C1 amended: for every such arrival the reaction performs exactly one
\* write, of [0x00, 0x2A, host_os_code], unless the open-by-path fails, and
\* then it performs none.
C1_OneWriteUnlessOpenFails ==
    ArrivalWithInterface =>
        IF result = "Err_open"
        THEN sent = <<>>
        ELSE /\ Len(sent) = 1
             /\ sent[1].data = <<0, 42, HOST_OS_CODE>>

\* C1 witness: an arrival handled in the event loop has returned after its
\* one write.
C1_Witness ==
    /\ ArrivalWithInterface
    /\ pc = "handle_events"
    /\ caller = "handle_events"
    /\ result = "Ok"
    /\ Len(sent) = 1

\* C2: every write issued to a HID session is 3 bytes long: 0x00, 0x2A and
\* the build's host OS code, one of 1 (Linux), 2 (Windows), 3 (macOS).
C2_ReportLayout ==
    \A i \in 1..Len(sent) :
        /\ Len(sent[i].data) = 3
        /\ sent[i].data[1] = 0
        /\ sent[i].data[2] = 42
        /\ sent[i].data[3] = HOST_OS_CODE
        /\ sent[i].data[3] \in {1, 2, 3}

\* C2 witness: a report was written on a Windows build.
C2_Witness == sent # <<>> /\ sent[1].data = <<0, 42, 2>>

\* C3: a probe of a configured pair whose interface is not in the HID device
\* list finds nothing and attempts neither an open nor a write.
C3_AbsentNotOpened ==
    (/\ Configured(ev.vendor_id, ev.product_id)
     /\ Did("device_list")
     /\ Targets(device_list, ev.vendor_id, ev.product_id) = {})
    => /\ device = 0
       /\ ~Did("open_path")
       /\ ~Did("write")
       /\ session = 0
       /\ sent = <<>>

\* C3 witness: the list held interfaces, among them one with the keyboard's
\* vendor id, and none was the keyboard's.
C3_Witness ==
    /\ Configured(ev.vendor_id, ev.product_id)
    /\ Did("device_list")
    /\ result = "Ok"
    /\ Targets(device_list, ev.vendor_id, ev.product_id) = {}
    /\ \E i \in 1..Len(device_list) :
        /\ device_list[i].vendor_id = ev.vendor_id
        /\ device_list[i].product_id # ev.product_id
        /\ device_list[i].usage = 97
        /\ device_list[i].usage_page = 65376

\* The entry at position i of the queried list matches the probed ids in all
\* four fields.
FourFieldMatch(i) ==
    /\ i \in 1..Len(device_list)
    /\ device_list[i].vendor_id = ev.vendor_id
    /\ device_list[i].product_id = ev.product_id
    /\ device_list[i].usage = 97
    /\ device_list[i].usage_page = 65376

\* C4: the lookup selects an entry only if vendor id, product id, usage 0x61
\* and usage page 0xFF60 all match; an interface that differs in usage or
\* usage page is never opened or written to.
C4_AllFourFields ==
    /\ device # 0 => FourFieldMatch(device)
    /\ session # 0 => FourFieldMatch(session)
    /\ \A i \in 1..Len(sent) : FourFieldMatch(sent[i].path)

\* C4 witness: the report went to the second interface of the list, the
\* first having the keyboard's ids and another usage or usage page.
C4_Witness ==
    /\ Len(sent) = 1
    /\ sent[1].path = 2
    /\ device_list[1].vendor_id = ev.vendor_id
    /\ device_list[1].product_id = ev.product_id
    /\ \/ device_list[1].usage # 97
       \/ device_list[1].usage_page # 65376

\* probe has returned from a list that holds the keyboard's interface twice
\* or more.
DuplicateInterfaces ==
    /\ result # "none"
    /\ Configured(ev.vendor_id, ev.product_id)
    /\ Cardinality(Targets(device_list, ev.vendor_id, ev.product_id)) >= 2

\* The first position of the queried list that holds the keyboard's interface.
FirstTarget ==
    CHOOSE i \in Targets(device_list, ev.vendor_id, ev.product_id) :
        \A j \in Targets(device_list, ev.vendor_id, ev.product_id) : i <= j

\* C5 as stated: with two or more identical matching interfaces a probe picks
\* the first in enumeration order and sends exactly one report to it.
C5_FirstDuplicateOneReport ==
    DuplicateInterfaces =>
        /\ device = FirstTarget
        /\ Len(sent) = 1
        /\ sent[1].path = FirstTarget

\* C5 amended: with two or more identical matching interfaces a probe picks
\* the first in enumeration order and opens only that one; it sends exactly
\* one report to it, not one per duplicate, unless the open fails, and then
\* it sends none.
C5_FirstDuplicateAtMostOneReport ==
    DuplicateInterfaces =>
        /\ device = FirstTarget
        /\ IF result = "Err_open"
           THEN sent = <<>>
           ELSE Len(sent) = 1 /\ sent[1].path = FirstTarget

\* C5 witness: one report was sent although the list held the interface
\* twice.
C5_Witness ==
    /\ DuplicateInterfaces
    /\ result = "Ok"
    /\ Len(sent) = 1
    /\ sent[1].path = 1
    /\ device_list[2] = device_list[1]

\* C6: an arrival whose ids equal no configured keyboard is ignored: no
\* settle delay, no HID device-list query, no open, no write, and probe
\* returns Ok, so that the callback is kept and the process not ended by it.
C6_UnconfiguredIgnored ==
    (/\ ev.kind = "Arrived"
     /\ Did("match")
     /\ ~Configured(ev.vendor_id, ev.product_id))
    => /\ steps = <<"match">>
       /\ device_list = <<>>
       /\ session = 0
       /\ sent = <<>>
       /\ result = "Ok"
       /\ registered
       /\ pc \in {"expect", "enumerate", "handle_events", "exited"}
       /\ pc = "exited" => error = "handle_events"

\* C6 witness: the event loop is waiting again after an arrival that shares
\* its vendor id, and not its product id, with a configured keyboard.
C6_Witness ==
    /\ ev.kind = "Arrived"
    /\ Did("match")
    /\ ~Configured(ev.vendor_id, ev.product_id)
    /\ \E k \in 1..Len(config) : config[k].vendor_id = ev.vendor_id
    /\ pc = "handle_events"

\* C7: a removal causes no action for any device: no match, delay, HID
\* query, open or write, and the delivery of the event leaves the
\* configuration, the connection and the position of the event loop as
\* they were.
C7_LeftIgnored ==
    [][ev'.kind = "Left" =>
          /\ steps' = <<>> /\ sent' = <<>> /\ session' = 0
          /\ keeb' = 0 /\ device' = 0 /\ device_list' = <<>>
          /\ result' = "none" /\ notice' = ""
          /\ ev' # ev =>
                /\ pc' = pc
                /\ config' = config
                /\ hid_api' = hid_api
                /\ registered' = registered
                /\ exit_code' = exit_code]_vars

\* C7 witness: the last event is the removal of a configured keyboard.
C7_Witness ==
    /\ ev.kind = "Left"
    /\ Configured(ev.vendor_id, ev.product_id)
    /\ pc = "handle_events"

\* C8: when a configured keyboard arrives and its interface is not found
\* after the settle delay, probe returns Ok after that one query (no retry),
\* nothing is opened or written, the callback stays registered, the process
\* is not ended by it, and once the callback has returned the next arrival
\* can be delivered.
C8_NotFoundReturnsOk ==
    (Did("device_list") /\ device = 0)
    => /\ result = "Ok"
       /\ steps = <<"match", "sleep", "device_list">>
       /\ sent = <<>>
       /\ session = 0
       /\ notice = config[keeb].name
       /\ registered
       /\ pc \in {"expect", "enumerate", "handle_events", "exited"}
       /\ pc = "exited" => error = "handle_events"
       /\ pc \in {"enumerate", "handle_events"} => ENABLED DeviceArrived

\* C8 witness: the event loop is waiting again after a probe that did not
\* find the interface of a configured keyboard.
C8_Witness ==
    /\ Did("device_list")
    /\ device = 0
    /\ pc = "handle_events"
    /\ caller = "handle_events"
    /\ exit_code = <<>>

\* C9: once a failure of the report sender (open or write) has been
\* escalated by an arrival reaction of the event loop, the process has
\* terminated and no further hotplug event is handled.
C9_SenderFailureFatal ==
    (/\ result \in {"Err_open", "Err_write"}
     /\ caller = "handle_events"
     /\ pc # "expect")
    => /\ pc = "exited"
       /\ exit_code # <<>>
       /\ ~ENABLED DeviceArrived
       /\ ~ENABLED DeviceLeft

\* C10 as stated: when the configuration file is absent, no step that
\* touches the native USB or HID subsystem precedes the failed read.
C10_NothingNativeBeforeRead ==
    error = "Config path: absent" =>
        /\ pc = "exited"
        /\ exit_code = <<1>>
        /\ native_calls = {}

\* C10 amended: when the configuration file is absent the process exits
\* non-zero before any HID API initialisation, USB context creation or
\* hotplug registration; the one native call before the failed read is the
\* hotplug capability query.
C10_NoInitBeforeRead ==
    error = "Config path: absent" =>
        /\ pc = "exited"
        /\ exit_code = <<1>>
        /\ native_calls = {"usb_has_capability"}
        /\ ~hid_api
        /\ ~registered

\* C10 witness: the process has exited on the absent configuration file.
C10_Witness == error = "Config path: absent" /\ pc = "exited"


\* The errors main returns before the hotplug callback is registered.
StartupErrors ==
    {"No hotplug compat", "Could not find config path", "Config path: absent",
     "Config path: unreadable", "toml", "hidapi", "rusb context", "hotplug register"}

\* C11: every startup failure (no hotplug capability, no configuration
\* path, unreadable or unparseable configuration, HID API, USB context or
\* hotplug registration failure) ends the process with a non-zero exit code,
\* and in such a run no callback has run, the event loop was not entered and
\* nothing was opened or written.
C11_StartupFailureExits ==
    error \in StartupErrors =>
        /\ pc = "exited"
        /\ exit_code = <<1>>
        /\ ~registered
        /\ caller = "none"
        /\ ev = NoEvent
        /\ steps = <<>>
        /\ sent = <<>>
        /\ earlier = <<>>
        /\ session = 0

\* C11 witness: the hotplug registration failed after the configuration was
\* loaded and both native subsystems initialised.
C11_Witness ==
    /\ error = "hotplug register"
    /\ config # <<>>
    /\ hid_api
    /\ "usb_init" \in native_calls

\* The first position of cfg whose keyboard has the ids (v, p), 0 if none.
FirstConfigured(cfg, v, p) ==
    LET hits == {i \in 1..Len(cfg) : cfg[i].vendor_id = v /\ cfg[i].product_id = p}
    IN  IF hits = {} THEN 0 ELSE CHOOSE i \in hits : \A j \in hits : i <= j

\* The first position of list that holds the protocol's interface of (v, p),
\* 0 if none.
FirstInterface(list, v, p) ==
    IF Targets(list, v, p) = {} THEN 0
    ELSE CHOOSE i \in Targets(list, v, p) : \A j \in Targets(list, v, p) : i <= j

C13_OneCallbackAtATime ==
    [][(ev' # ev \/ Len(steps') < Len(steps)) =>
          /\ pc \in {"enumerate", "handle_events"}
          /\ session = 0
          /\ steps # <<>> => result # "none"]_vars

\* C13 witness: an arrival is being probed after an earlier callback wrote
\* its report.
C13_Witness == pc = "sleep" /\ earlier # <<>>

\* An open or write call failed and is the last call probe made.
TransportFailed ==
    /\ steps # <<>>
    /\ \/ result = "Err_open" /\ steps[Len(steps)] = "open_path"
       \/ result = "Err_write" /\ steps[Len(steps)] = "write"

\* C14: after a successful startup the process ends only on an error of the
\* event pump or on a transport failure of a reaction, never with exit code
\* 0; a reaction that returned Ok, and a removal, leave the thread waiting
\* for the next event.
C14_RunsUntilFailure ==
    ("usb_hotplug_register" \in native_calls /\ error # "hotplug register") =>
        /\ exit_code # <<0>>
        /\ pc = "exited" =>
              \/ error = "handle_events"
              \/ error = "Probed device" /\ TransportFailed
        /\ (pc \notin {"expect", "exited"} /\ (result = "Ok" \/ ev.kind = "Left")) =>
              /\ pc \in {"enumerate", "handle_events"}
              /\ exit_code = <<>>
              /\ registered

\* C14 witness: the loop waits again after a report was written, a later
\* arrival was probed and a removal was delivered.
C14_Witness ==
    /\ pc = "handle_events"
    /\ earlier # <<>>
    /\ ev.kind = "Left"
    /\ exit_code = <<>>

\* The configuration lists exactly "ergo" and "numpad".
ErgoAndNumpad ==
    /\ Len(config) = 2
    /\ {config[1].name, config[2].name} = {"ergo", "numpad"}

ProbeOrder == <<"match", "sleep", "device_list", "open_path", "write">>

\* C16: the calls of one arrival reaction are a prefix of match, settle
\* delay, HID device-list query, open-by-path, write; the delay is taken
\* only when a keyboard matched, the open only for an interface found, the
\* write only on the session the open gave.
C16_StepOrder ==
    /\ Len(steps) <= Len(ProbeOrder)
    /\ \A i \in 1..Len(steps) : steps[i] = ProbeOrder[i]
    /\ Did("sleep") => keeb # 0 /\ Configured(ev.vendor_id, ev.product_id)
    /\ Did("open_path") => device # 0 /\ FourFieldMatch(device)
    /\ session # 0 => Did("open_path")
    /\ Did("write") => result # "Err_open" /\ Len(sent) = 1 /\ sent[1].path = device
    /\ sent # <<>> => Did("write")

\* C16 witness: a reaction went through all five calls.
C16_Witness == steps = ProbeOrder /\ result = "Ok"

\* C17: the session a probe opened is released when the probe returns,
\* after a failed write as after a successful one: a session is open only
\* between the open and the write of one probe, a probe opens at most one,
\* and none is open while the thread waits for an event.
C17_SessionReleased ==
    /\ session # 0 => pc = "write" /\ session = device
    /\ pc \in {"expect", "enumerate", "handle_events", "exited"} => session = 0
    /\ Cardinality({i \in 1..Len(steps) : steps[i] = "open_path"}) <= 1

\* C17 witness: probe has returned the error of a failed write and no
\* session is open.
C17_Witness == pc = "expect" /\ result = "Err_write" /\ session = 0

\* C18: an arrival causes at most one delay, one query, one open and one
\* write, whatever the configuration and the HID device list; when several
\* configured keyboards have the event's ids the first of them is the one
\* probed.
C18_FirstConfigOnly ==
    /\ \A c \in {"match", "sleep", "device_list", "open_path", "write"} :
            Cardinality({i \in 1..Len(steps) : steps[i] = c}) <= 1
    /\ Len(sent) <= 1
    /\ keeb # 0 =>
            /\ config[keeb].vendor_id = ev.vendor_id
            /\ config[keeb].product_id = ev.product_id
            /\ \A j \in 1..(keeb - 1) :
                    ~(config[j].vendor_id = ev.vendor_id
                      /\ config[j].product_id = ev.product_id)
    /\ notice # "" => notice = config[keeb].name

\* C18 witness: two configured keyboards have the ids of the arrival and
\* one report was written.
C18_Witness ==
    /\ Len(config) = 2
    /\ config[1].vendor_id = config[2].vendor_id
    /\ config[1].product_id = config[2].product_id
    /\ keeb = 1
    /\ result = "Ok"
    /\ Len(sent) = 1

\* C19: an arrival whose device descriptor cannot be read is dropped: no
\* match, delay, HID query, open or write; the process is not ended by it,
\* the callback stays registered and the next arrival can be delivered.
C19_UnreadableDescriptorDropped ==
    (ev.kind = "Arrived" /\ ~ev.descriptor) =>
        /\ steps = <<>>
        /\ keeb = 0
        /\ device_list = <<>>
        /\ session = 0
        /\ sent = <<>>
        /\ result = "none"
        /\ registered
        /\ pc \in {"enumerate", "handle_events", "exited"}
        /\ pc = "exited" => error = "handle_events"
        /\ pc # "exited" => exit_code = <<>> /\ ENABLED DeviceArrived

\* C19 witness: the arrival of a configured keyboard was dropped and the
\* loop is waiting.
C19_Witness ==
    /\ ev.kind = "Arrived"
    /\ ~ev.descriptor
    /\ Configured(ev.vendor_id, ev.product_id)
    /\ pc = "handle_events"

\* ------------------------------------------------------------- type sanity
TypeOK ==
    /\ HOST_OS_CODE \in HostOsCodes
    /\ config \in Config
    /\ device_list \in HidLists
    /\ keeb \in 0..Len(config)
    /\ device \in 0..Len(device_list)
    /\ session \in 0..Len(device_list)
    /\ result \in {"none", "Ok", "Err_open", "Err_write"}
    /\ exit_code \in {<<>>, <<1>>, <<101>>}
    /\ earlier \in {<<>>, Report(HOST_OS_CODE)}
====
